---- MODULE Spec2Model ----
(***************************************************************************)
(* Contact service of c2-mcp: the contact table, the embedding table with  *)
(* its cascading foreign key, the embedding provider as a black box, and   *)
(* the operations of ContactService, each cut at its await points.         *)
(*                                                                         *)
(* Strings are sequences of one-character strings, so that substring       *)
(* matching (ILIKE) and the embedding source text are computed, not        *)
(* assumed.  The empty string and the empty array are both << >>.          *)
(***************************************************************************)
EXTENDS Integers, Sequences, FiniteSets, TLC

(***************************************************************************)
(* Bounds of the model.                                                    *)
(***************************************************************************)
\* number of contact rows ever inserted (ids are never reused)
MaxContacts == 2
\* last value of the millisecond clock
MaxTime == 1
\* callers whose operations may overlap
NumProcs == 2
\* dimension of the embedding column, scaled down from 1024
VectorDim == 3

(***************************************************************************)
(* Program constants.                                                      *)
(***************************************************************************)
\* similarity threshold 0.5, as the fraction ThresholdNum / ThresholdDen
ThresholdNum == 1
ThresholdDen == 2
\* top-K of the semantic path
TopK == 10
\* listContacts defaults
DefaultLimit == 50
DefaultOffset == 0

Procs == 1..NumProcs

(***************************************************************************)
(* Values.                                                                 *)
(***************************************************************************)
NULL == "NULL"
\* a uuid that no contact ever gets ("00000000-0000-0000-0000-000000000000")
NilUuid == 0
\* an id that is not a uuid ("invalid-uuid-format")
MalformedId == -1
ValidDate == "1995-12-25"
InvalidDate == "not-a-date"

TextFields == {"title", "company", "notes", "location"}
ArrayFields == {"email", "phone", "links", "tags"}
InputFields == {"name", "birthdate"} \cup TextFields \cup ArrayFields

\* the empty string, which is not a uuid either
EmptyId == -2

IsUuid(id) == id \notin {MalformedId, EmptyId}

\* null given for a text field and for a text[] field (neither is a string
\* of characters or an array of such strings)
NullText == <<NULL>>
NullArray == <<NullText>>
NullOf(f) == IF f \in ArrayFields THEN NullArray ELSE NullText

\* undefined given where a string is expected
UndefinedText == <<"UNDEFINED">>

\* the column type "date" rejects anything that is not a calendar date
IsValidDate(d) == d \in {NULL, ValidDate}

(***************************************************************************)
(* The clock: new Date() has millisecond resolution, so two reads can      *)
(* return the same value; a later read is never smaller.                   *)
(***************************************************************************)
ClockReads(t) == {u \in {t, t + 1} : u <= MaxTime}

(***************************************************************************)
(* Inputs of the operations, drawn from small concrete sets.               *)
(***************************************************************************)
\* ContactInput values: a name only, several fields, an invalid birthdate,
\* null for an array
ContactInputs ==
  { [name |-> <<"A", "l">>],
    [name |-> <<"b", "o">>, title |-> <<"d">>, tags |-> << <<"a", "l">> >>,
     birthdate |-> ValidDate],
    [name |-> <<"x">>, birthdate |-> InvalidDate],
    [name |-> <<"x">>, tags |-> NullArray] }

\* the fields of a ContactUpdate besides its id: none, a new name with
\* empty values for title and tags, an invalid birthdate, null for a text
Partials ==
  { << >>,
    [name |-> <<"a", "l">>, title |-> << >>, tags |-> << >>],
    [birthdate |-> InvalidDate],
    [title |-> NullText] }

\* ids a caller may pass
CallerIds == (NilUuid..MaxContacts) \cup {MalformedId}

\* query strings: empty, plain, mixed case
Queries == { << >>, <<"a", "l">>, <<"D">> }

(***************************************************************************)
(* Text.                                                                   *)
(***************************************************************************)
LowerChar(c) ==
  CASE c = "A" -> "a"
    [] c = "D" -> "d"
    [] c = "L" -> "l"
    [] OTHER -> c

Lower(s) == [i \in 1..Len(s) |-> LowerChar(s[i])]

\* SQL LIKE: % matches any run, _ any one character, \ escapes the next
RECURSIVE Like(_, _)
Like(s, p) ==
  IF p = << >> THEN s = << >>
  ELSE IF Head(p) = "%"
    THEN Like(s, Tail(p)) \/ (s # << >> /\ Like(Tail(s), p))
  ELSE IF Head(p) = "_"
    THEN s # << >> /\ Like(Tail(s), Tail(p))
  ELSE IF Head(p) = "\\"
    THEN Len(p) > 1 /\ s # << >> /\ Head(s) = p[2]
         /\ Like(Tail(s), Tail(Tail(p)))
  ELSE s # << >> /\ Head(s) = Head(p) /\ Like(Tail(s), Tail(p))

\* ILIKE: LIKE without regard to case
ILike(s, p) == Like(Lower(s), Lower(p))

\* Array.prototype.join(" ")
RECURSIVE JoinSpace(_)
JoinSpace(parts) ==
  IF parts = << >> THEN << >>
  ELSE IF Len(parts) = 1 THEN parts[1]
  ELSE parts[1] \o <<" ">> \o JoinSpace(Tail(parts))

\* Array.prototype.filter(Boolean) on strings: drops the empty ones
RECURSIVE FilterNonEmpty(_)
FilterNonEmpty(parts) ==
  IF parts = << >> THEN << >>
  ELSE IF Head(parts) = << >> THEN FilterNonEmpty(Tail(parts))
  ELSE <<Head(parts)>> \o FilterNonEmpty(Tail(parts))

createContactEmbeddingText(contact) ==
  JoinSpace(FilterNonEmpty(
    <<contact.name, contact.title, contact.company, contact.location,
      contact.notes>>
    \o contact.email \o contact.phone \o contact.links \o contact.tags))

(***************************************************************************)
(* Vectors and cosine similarity, in integer arithmetic.                   *)
(***************************************************************************)
Pad(v) == [i \in 1..VectorDim |-> IF i <= Len(v) THEN v[i] ELSE 0]

\* vectors the provider may answer with
ProviderVectors == {Pad(<<1, 1, 0>>), Pad(<<1, 0, 0>>), Pad(<<0, 1, 1>>)}

RECURSIVE DotUpTo(_, _, _)
DotUpTo(a, b, n) ==
  IF n = 0 THEN 0 ELSE a[n] * b[n] + DotUpTo(a, b, n - 1)

Dot(a, b) == DotUpTo(a, b, Len(a))

Abs(x) == IF x < 0 THEN -x ELSE x

\* (a threshold that lets a similarity of exactly t/d pass)
SimilarityAbove_Inclusive(a, q) ==
  /\ Dot(a, q) > 0
  /\ ThresholdDen * ThresholdDen * Dot(a, q) * Dot(a, q)
       >= ThresholdNum * ThresholdNum * Dot(a, a) * Dot(q, q)

\* 1 - cosineDistance(a, q) > t/d, i.e. Dot/(|a||q|) > t/d, squared
SimilarityAbove(a, q) ==
  /\ Dot(a, q) > 0
  /\ ThresholdDen * ThresholdDen * Dot(a, q) * Dot(a, q)
       > ThresholdNum * ThresholdNum * Dot(a, a) * Dot(q, q)

\* similarity(a, q) >= similarity(b, q), compared through signed squares
SimilarityGeq(a, b, q) ==
  Dot(a, q) * Abs(Dot(a, q)) * Dot(b, b)
    >= Dot(b, q) * Abs(Dot(b, q)) * Dot(a, a)

\* the column vector(n) accepts exactly the vectors of n components
FitsVectorColumn(v) == Len(v) = VectorDim

(***************************************************************************)
(* The database: statements as functions of the tables.                    *)
(***************************************************************************)
Min(a, b) == IF a <= b THEN a ELSE b

\* values the columns accept: a calendar date or null for birthdate, and
\* no null for the other columns, which are all NOT NULL
InputValid(data) ==
  /\ "birthdate" \in DOMAIN data => IsValidDate(data.birthdate)
  /\ \A f \in DOMAIN data \ {"birthdate"} : data[f] # NullOf(f)

\* (a table whose columns have no defaults: an absent value is null)
NewContactRow_NoDefaults(input, id, created, updated) ==
  [f \in InputFields \cup {"id", "createdAt", "updatedAt"} |->
     CASE f = "id" -> id
       [] f = "createdAt" -> created
       [] f = "updatedAt" -> updated
       [] f \in DOMAIN input -> input[f]
       [] f = "birthdate" -> NULL
       [] OTHER -> NullOf(f)]

\* INSERT INTO contacts: absent columns take their defaults
NewContactRow(input, id, created, updated) ==
  [ id |-> id,
    name |-> input.name,
    title |-> IF "title" \in DOMAIN input THEN input.title ELSE << >>,
    company |-> IF "company" \in DOMAIN input THEN input.company ELSE << >>,
    email |-> IF "email" \in DOMAIN input THEN input.email ELSE << >>,
    phone |-> IF "phone" \in DOMAIN input THEN input.phone ELSE << >>,
    links |-> IF "links" \in DOMAIN input THEN input.links ELSE << >>,
    tags |-> IF "tags" \in DOMAIN input THEN input.tags ELSE << >>,
    notes |-> IF "notes" \in DOMAIN input THEN input.notes ELSE << >>,
    location |-> IF "location" \in DOMAIN input THEN input.location ELSE << >>,
    birthdate |-> IF "birthdate" \in DOMAIN input THEN input.birthdate
                  ELSE NULL,
    createdAt |-> created,
    updatedAt |-> updated ]

\* (an update that takes an empty value for an absent one)
UpdatedRow_SkipsEmpty(row, updateData, updated) ==
  [f \in DOMAIN row |->
     IF f \in DOMAIN updateData /\ (f = "birthdate" \/ updateData[f] # << >>)
     THEN updateData[f]
     ELSE IF f = "updatedAt" THEN updated
     ELSE row[f]]

\* UPDATE contacts SET {...updateData, updatedAt}: only the given columns
UpdatedRow(row, updateData, updated) ==
  [f \in DOMAIN row |->
     IF f \in DOMAIN updateData THEN updateData[f]
     ELSE IF f = "updatedAt" THEN updated
     ELSE row[f]]

\* (a delete that reports the row and leaves it)
ContactsWithout_Keeps(cs, id) == cs

\* DELETE FROM contacts WHERE id: the row goes
ContactsWithout(cs, id) == [c \in DOMAIN cs \ {id} |-> cs[c]]

\* (a foreign key without the cascade)
EmbeddingsWithout_NoCascade(es, contactId) == es

\* ... and ON DELETE CASCADE removes the embedding rows that refer to it
EmbeddingsWithout(es, contactId) == {e \in es : e.contactId # contactId}

\* (an update of the embedding that leaves the old rows in place)
EmbeddingsDeletedFor_Skipped(es, contactId) == es

\* DELETE FROM embeddings WHERE contactId, the statement of
\* updateContactEmbedding
EmbeddingsDeletedFor(es, contactId) == {e \in es : e.contactId # contactId}

\* gen_random_uuid() for an embedding row: an id no live row has
FreshEmbeddingId(es) ==
  CHOOSE n \in 1..(Cardinality(es) + 1) : \A e \in es : e.id # n

\* INSERT INTO embeddings: rejected when the foreign key finds no contact
\* or when the vector does not fit the column
EmbeddingInsertAccepted(cs, contactId, v) ==
  contactId \in DOMAIN cs /\ FitsVectorColumn(v)

\* (createdAt and updatedAt of an embedding row are written here and read
\* nowhere in the program; the row is kept without them)
EmbeddingsWith(cs, es, contactId, content, v) ==
  IF EmbeddingInsertAccepted(cs, contactId, v)
  THEN es \cup {[ id |-> FreshEmbeddingId(es), contactId |-> contactId,
                  content |-> content, embedding |-> v ]}
  ELSE es

\* the WHERE clause of listContacts: ILIKE '%query%' on every text column
\* and on every element of every array column
QueryPattern(query) == <<"%">> \o query \o <<"%">>

QueryMatches(row, query) ==
  \/ ILike(row.name, QueryPattern(query))
  \/ ILike(row.company, QueryPattern(query))
  \/ ILike(row.notes, QueryPattern(query))
  \/ ILike(row.title, QueryPattern(query))
  \/ ILike(row.location, QueryPattern(query))
  \/ \E i \in 1..Len(row.email) : ILike(row.email[i], QueryPattern(query))
  \/ \E i \in 1..Len(row.phone) : ILike(row.phone[i], QueryPattern(query))
  \/ \E i \in 1..Len(row.links) : ILike(row.links[i], QueryPattern(query))
  \/ \E i \in 1..Len(row.tags) : ILike(row.tags[i], QueryPattern(query))

\* all orders of the elements of S
Orders(S) ==
  {s \in [1..Cardinality(S) -> S] :
     \A i, j \in 1..Cardinality(S) : i # j => s[i] # s[j]}

\* the sequences that hold every element of S once, by key in
\* non-increasing order: equal keys come in an order SQL leaves open.
\* (Split at a median key: the larger keys, the equal ones, the smaller.)
RECURSIVE DescendingBy(_, _)
DescendingBy(S, key) ==
  IF S = {} THEN {<< >>}
  ELSE LET k == CHOOSE k \in {key[x] : x \in S} :
                  /\ 2 * Cardinality({x \in S : key[x] > k}) <= Cardinality(S)
                  /\ 2 * Cardinality({x \in S : key[x] < k}) <= Cardinality(S)
       IN { above \o equal \o below :
              above \in DescendingBy({x \in S : key[x] > k}, key),
              equal \in Orders({x \in S : key[x] = k}),
              below \in DescendingBy({x \in S : key[x] < k}, key) }

\* ORDER BY updatedAt DESC
ByUpdatedDesc(cs, ids) ==
  DescendingBy(ids, [c \in ids |-> cs[c].updatedAt])

\* a JavaScript number passed as limit or offset: whole + tenths / 10
Num(n) == [whole |-> n, tenths |-> 0]
\* 2.7, a number that is not an integer
Fraction == [whole |-> 2, tenths |-> 7]

IsInteger(n) == n.tenths = 0

\* the query builder writes LIMIT only for a number that is not negative,
\* and OFFSET for every offset but 0
HasLimitClause(limit) == limit.whole >= 0
HasOffsetClause(offset) == offset # Num(0)

\* the database takes the LIMIT and OFFSET parameters as bigint and wants
\* them not negative
ClauseRejected(n) == ~IsInteger(n) \/ n.whole < 0

\* LIMIT limit OFFSET offset, each only when its clause is written
Page(s, limit, offset) ==
  LET from == IF HasOffsetClause(offset) THEN offset.whole + 1 ELSE 1
      to == IF HasLimitClause(limit)
            THEN Min(Len(s), from - 1 + limit.whole)
            ELSE Len(s)
  IN SubSeq(s, from, to)

ParamQuery(params) ==
  IF "query" \in DOMAIN params THEN params.query ELSE << >>
\* (a list without the default page size)
ParamLimit_NoDefault(params) ==
  IF "limit" \in DOMAIN params THEN params.limit ELSE Num(-1)

ParamLimit(params) ==
  IF "limit" \in DOMAIN params THEN params.limit ELSE Num(DefaultLimit)
ParamOffset(params) ==
  IF "offset" \in DOMAIN params THEN params.offset ELSE Num(DefaultOffset)

\* the statement fails when a clause it carries is rejected
ListRejected(params) ==
  \/ HasLimitClause(ParamLimit(params)) /\ ClauseRejected(ParamLimit(params))
  \/ HasOffsetClause(ParamOffset(params))
       /\ ClauseRejected(ParamOffset(params))

\* (a test that takes null and undefined for text to search for)
Truthy_OnlyEmptyIsFalsy(query) == query # << >>

\* "if (query)": the empty string, null and undefined are falsy
Truthy(query) == query \notin {<< >>, NullText, UndefinedText}

\* listContacts: the sequences the query may return
listContactsRows(cs, params) ==
  LET query == ParamQuery(params)
      ids == IF Truthy(query)
             THEN {c \in DOMAIN cs : QueryMatches(cs[c], query)}
             ELSE DOMAIN cs
  IN { Page([i \in 1..Len(s) |-> cs[s[i]]],
            ParamLimit(params), ParamOffset(params)) :
       s \in ByUpdatedDesc(cs, ids) }

\* semanticSearch's query: embeddings JOIN contacts WHERE similarity > 0.5
\* ORDER BY similarity DESC LIMIT 10, mapped to the joined contact
semanticQuery(cs, es, queryEmbedding) ==
  LET kept == {e \in es : /\ e.contactId \in DOMAIN cs
                          /\ SimilarityAbove(e.embedding, queryEmbedding)}
      \* a row's key: the number of kept rows it is at least as similar as
      rank == [e \in kept |->
                 Cardinality({x \in kept :
                    SimilarityGeq(e.embedding, x.embedding, queryEmbedding)})]
  IN { [i \in 1..Min(Len(s), TopK) |-> cs[s[i].contactId]] :
       s \in DescendingBy(kept, rank) }

(***************************************************************************)
(* The merge of searchContacts: a Map keyed by contact id, which keeps     *)
(* the position of a key's first insertion.                                *)
(***************************************************************************)
MapHas(m, id) == \E i \in 1..Len(m) : m[i].id = id

\* (a list instead of a Map: a key set twice is held twice)
MapSet_Appends(m, contact) == Append(m, contact)

MapSet(m, contact) ==
  IF MapHas(m, contact.id)
  THEN [i \in 1..Len(m) |-> IF m[i].id = contact.id THEN contact ELSE m[i]]
  ELSE Append(m, contact)

\* "for (const contact of semanticResults) combinedResults.set(...)"; a
\* loop over results is the loop over its first half, then over its second
RECURSIVE AddSemantic(_, _)
AddSemantic(m, results) ==
  IF results = << >> THEN m
  ELSE IF Len(results) = 1 THEN MapSet(m, results[1])
  ELSE LET half == Len(results) \div 2
           first == AddSemantic(m, SubSeq(results, 1, half))
       IN AddSemantic(first, SubSeq(results, half + 1, Len(results)))

\* "for (const contact of regularResults) if (!combinedResults.has(...))
\* combinedResults.set(...)": the loop sets the entries whose key the map
\* does not hold and no earlier entry of results has set, in their order
AddRegular(m, results) ==
  LET set == {i \in 1..Len(results) :
                /\ ~MapHas(m, results[i].id)
                /\ \A j \in 1..(i - 1) : results[j].id # results[i].id}
      nth(k) == CHOOSE i \in set : Cardinality({j \in set : j <= i}) = k
  IN m \o [k \in 1..Cardinality(set) |-> results[nth(k)]]

\* (a merge that leaves the lexical results out)
combinedResults_SemanticOnly(semanticResults, regularResults) ==
  AddSemantic(<< >>, semanticResults)

\* (a merge that starts with the lexical results)
combinedResults_RegularFirst(semanticResults, regularResults) ==
  AddSemantic(AddRegular(<< >>, regularResults), semanticResults)

combinedResults(semanticResults, regularResults) ==
  AddRegular(AddSemantic(<< >>, semanticResults), regularResults)

(***************************************************************************)
(* State.                                                                  *)
(***************************************************************************)
VARIABLES
  contacts,    \* the contact table: id -> row
  embeddings,  \* the embedding table: a set of rows
  nextId,      \* the next contact id (uuids are never reused)
  now,         \* the last value read from the clock
  config,      \* constructor options and ambient context of the service
  pc,          \* per caller: where its operation stands
  op,          \* per caller: the operation it runs
  arg,         \* per caller: the operation's argument
  loc,         \* per caller: the operation's local variables
  ret          \* per caller: what the operation returned

vars == <<contacts, embeddings, nextId, now, config, pc, op, arg, loc, ret>>

\* how a service is built: index.ts passes options and sets no context,
\* the tests set a context and pass no options
Configs ==
  { [opt |-> "true", ctx |-> "none"],
    [opt |-> "undefined", ctx |-> "true"],
    [opt |-> "undefined", ctx |-> "false"],
    [opt |-> "false", ctx |-> "true"] }

\* the getter ContactService.embeddingsEnabled
embeddingsEnabled ==
  IF config.opt # "undefined" THEN config.opt = "true"
  ELSE config.ctx = "true"

\* what a call returns
RetNone == [kind |-> "none"]
RetThrow == [kind |-> "throw"]
RetNull == [kind |-> "null"]
RetContact(row) == [kind |-> "contact", value |-> row]
RetBoolean(b) == [kind |-> "boolean", value |-> b]
RetList(s) == [kind |-> "list", value |-> s]
RetBulk(r) == [kind |-> "bulk", value |-> r]

\* what the provider call does: it throws, or answers with a vector,
\* possibly the empty one
ProviderOutcomes ==
  {[kind |-> "fail", v |-> << >>], [kind |-> "empty", v |-> << >>]}
  \cup {[kind |-> "vector", v |-> v] : v \in ProviderVectors}

NoLoc == [outcome |-> "none"]

Init ==
  /\ contacts = << >>
  /\ embeddings = {}
  /\ nextId = 1
  /\ now = 0
  /\ config \in Configs
  /\ pc = [p \in Procs |-> "idle"]
  /\ op = [p \in Procs |-> "none"]
  /\ arg = [p \in Procs |-> << >>]
  /\ loc = [p \in Procs |-> NoLoc]
  /\ ret = [p \in Procs |-> RetNone]

Begin(p, name, a) ==
  /\ pc[p] = "idle"
  /\ op' = [op EXCEPT ![p] = name]
  /\ arg' = [arg EXCEPT ![p] = a]

Finish(p, r) ==
  /\ pc' = [pc EXCEPT ![p] = "done"]
  /\ ret' = [ret EXCEPT ![p] = r]

(***************************************************************************)
(* createContact                                                           *)
(***************************************************************************)
createContact(p, input) ==
  /\ Begin(p, "createContact", input)
  /\ nextId <= MaxContacts
  /\ UNCHANGED <<embeddings, config>>
  /\ \E created \in ClockReads(now) : \E updated \in ClockReads(created) :
       /\ now' = updated
       /\ IF ~InputValid(input)
          THEN \* the insert is rejected and the call throws
               /\ Finish(p, RetThrow)
               /\ loc' = [loc EXCEPT ![p] = NoLoc]
               /\ UNCHANGED <<contacts, nextId>>
          ELSE LET contact == NewContactRow(input, nextId, created, updated)
               IN /\ contacts' = [c \in DOMAIN contacts \cup {nextId} |->
                                    IF c = nextId THEN contact
                                    ELSE contacts[c]]
                  /\ nextId' = nextId + 1
                  /\ IF embeddingsEnabled
                     THEN \* createContactEmbedding: the provider is called
                          /\ pc' = [pc EXCEPT ![p] = "createEmbedding"]
                          /\ loc' = [loc EXCEPT ![p] =
                               [outcome |-> "none", contact |-> contact,
                                embeddingText |->
                                  createContactEmbeddingText(contact)]]
                          /\ UNCHANGED ret
                     ELSE /\ Finish(p, RetContact(contact))
                          /\ loc' = [loc EXCEPT ![p] = NoLoc]

\* (an embedding hook without its catch)
ReturnAfterEmbedding_Propagates(contact, outcome) ==
  IF outcome = "fail" THEN RetThrow ELSE RetContact(contact)

\* the catch of createContactEmbedding and of updateContactEmbedding logs
\* the error; the caller returns the contact it wrote whatever happened
ReturnAfterEmbedding(contact, outcome) == RetContact(contact)

\* the rest of createContactEmbedding, from the provider's answer on
createContactEmbedding(p, outcome) ==
  /\ pc[p] = "createEmbedding"
  /\ op[p] = "createContact"
  /\ loc' = [loc EXCEPT ![p].outcome = outcome.kind]
  /\ Finish(p, ReturnAfterEmbedding(loc[p].contact, outcome.kind))
  /\ UNCHANGED <<contacts, nextId, now, config, op, arg>>
  /\ embeddings' =
       IF outcome.kind = "vector"
       THEN EmbeddingsWith(contacts, embeddings, loc[p].contact.id,
                           loc[p].embeddingText, outcome.v)
       ELSE embeddings

(***************************************************************************)
(* getContact, deleteContact                                               *)
(***************************************************************************)
getContact(p, id) ==
  /\ Begin(p, "getContact", id)
  /\ Finish(p, IF ~IsUuid(id) THEN RetThrow
               ELSE IF id \in DOMAIN contacts THEN RetContact(contacts[id])
               ELSE RetNull)
  /\ UNCHANGED <<contacts, embeddings, nextId, now, config, loc>>

\* (a delete that reports success whatever the statement returned)
DeleteReturns_Always(cs, id) == TRUE

\* what deleteContact returns: whether DELETE ... RETURNING gave a row
\* back; a malformed id makes the statement throw, and the catch returns
\* false
DeleteReturns(cs, id) == IsUuid(id) /\ id \in DOMAIN cs

deleteContact(p, id) ==
  /\ Begin(p, "deleteContact", id)
  /\ UNCHANGED <<nextId, now, config, loc>>
  /\ IF ~IsUuid(id)
     THEN \* the statement throws, the catch returns false
          /\ Finish(p, RetBoolean(FALSE))
          /\ UNCHANGED <<contacts, embeddings>>
     ELSE /\ contacts' = ContactsWithout(contacts, id)
          /\ embeddings' = IF id \in DOMAIN contacts
                           THEN EmbeddingsWithout(embeddings, id)
                           ELSE embeddings
          /\ Finish(p, RetBoolean(DeleteReturns(contacts, id)))

(***************************************************************************)
(* updateContact, alone or as the loop body of bulkUpdateContacts          *)
(***************************************************************************)
\* (an error entry that tells the number of the failure, not the place of
\* its entry)
BulkError_Unplaced(i, message, data) ==
  [index |-> -1, error |-> message, data |-> data]

\* the error entry of the bulk loops for the i-th entry of the input:
\* its index counts from 0
BulkError(i, message, data) ==
  [index |-> i - 1, error |-> message, data |-> data]

\* updateContact returns r (or throws) with locals l: a single call is
\* done, the loop of bulkUpdateContacts records the outcome and goes on
UpdateReturn(p, bulk, r, l) ==
  IF ~bulk
  THEN /\ Finish(p, r)
       /\ loc' = [loc EXCEPT ![p] = l]
  ELSE LET update == arg[p][l.i]
           result ==
             CASE r.kind = "contact" ->
                    [l.result EXCEPT !.contacts = Append(@, r.value),
                                     !.processedCount = @ + 1]
               [] r.kind = "null" ->
                    [l.result EXCEPT !.errors =
                       Append(@, BulkError(l.i, "Contact not found", update))]
               [] OTHER ->
                    [l.result EXCEPT !.success = FALSE,
                                     !.errors =
                       Append(@, BulkError(l.i, "Unknown error", update))]
       IN /\ loc' = [loc EXCEPT ![p] =
                       [l EXCEPT !.i = l.i + 1, !.result = result]]
          /\ pc' = [pc EXCEPT ![p] = "bulkUpdateNext"]
          /\ UNCHANGED ret

NoContact == [id |-> NilUuid]

\* (a hook that does not look at whether the row was found)
UpdateCallsProvider_IgnoresFound(found, enabled) == enabled

\* "if (contact && this.embeddingsEnabled)": the embedding is refreshed
\* only for a row that was found
UpdateCallsProvider(found, enabled) == found /\ enabled

\* the UPDATE ... RETURNING statement of updateContact and what follows it
\* up to the next await
UpdateWrite(p, bulk, update, l) ==
  \E updated \in ClockReads(now) :
    /\ now' = updated
    /\ IF ~IsUuid(update.id) \/ ~InputValid(update.data)
       THEN \* the statement is rejected and updateContact throws
            /\ UNCHANGED contacts
            /\ UpdateReturn(p, bulk, RetThrow, l)
       ELSE LET found == update.id \in DOMAIN contacts
                contact == IF found
                           THEN UpdatedRow(contacts[update.id], update.data,
                                           updated)
                           ELSE NoContact
            IN /\ contacts' = IF found
                              THEN [contacts EXCEPT ![update.id] = contact]
                              ELSE contacts
               /\ IF UpdateCallsProvider(found, embeddingsEnabled)
                  THEN \* updateContactEmbedding: the provider is called
                       /\ pc' = [pc EXCEPT ![p] = "updateEmbedding"]
                       /\ loc' = [loc EXCEPT ![p] =
                            [l EXCEPT !.outcome = "none",
                                      !.contact = contact,
                                      !.embeddingText =
                                        IF found
                                        THEN createContactEmbeddingText(contact)
                                        ELSE << >>]]
                       /\ UNCHANGED ret
                  ELSE UpdateReturn(p, bulk,
                                    IF found THEN RetContact(contact)
                                    ELSE RetNull, l)

\* the result a bulk insert or bulk update starts from
EmptyResult ==
  [success |-> TRUE, processedCount |-> 0, errors |-> << >>,
   contacts |-> << >>]

UpdateLocals ==
  [outcome |-> "none", contact |-> NoContact, embeddingText |-> << >>,
   embedding |-> << >>, inserted |-> FALSE, i |-> 1, result |-> EmptyResult]

updateContact(p, update) ==
  /\ Begin(p, "updateContact", update)
  /\ UpdateWrite(p, FALSE, update, UpdateLocals)
  /\ UNCHANGED <<embeddings, nextId, config>>

\* updateContactEmbedding from the provider's answer on: a failed call
\* leaves through the catch, any answer is followed by the DELETE
updateContactEmbedding(p, outcome) ==
  /\ pc[p] = "updateEmbedding"
  /\ UNCHANGED <<contacts, nextId, now, config, op, arg>>
  /\ IF outcome.kind = "fail"
     THEN /\ UNCHANGED embeddings
          /\ UpdateReturn(p, op[p] = "bulkUpdateContacts",
                          ReturnAfterEmbedding(loc[p].contact, outcome.kind),
                          [loc[p] EXCEPT !.outcome = outcome.kind])
     ELSE /\ embeddings' = EmbeddingsDeletedFor(embeddings, loc[p].contact.id)
          /\ pc' = [pc EXCEPT ![p] = "updateInsert"]
          /\ loc' = [loc EXCEPT ![p].outcome = outcome.kind,
                                ![p].embedding = outcome.v]
          /\ UNCHANGED ret

\* the INSERT that ends updateContactEmbedding; its failure is caught
updateEmbeddingInsert(p) ==
  /\ pc[p] = "updateInsert"
  /\ UNCHANGED <<contacts, nextId, now, config, op, arg>>
  /\ embeddings' =
       EmbeddingsWith(contacts, embeddings, loc[p].contact.id,
                      loc[p].embeddingText, loc[p].embedding)
  /\ UpdateReturn(p, op[p] = "bulkUpdateContacts",
                  ReturnAfterEmbedding(loc[p].contact, loc[p].outcome),
                  [loc[p] EXCEPT !.inserted =
                     EmbeddingInsertAccepted(contacts, loc[p].contact.id,
                                             loc[p].embedding)])

(***************************************************************************)
(* listContacts, searchContacts                                            *)
(***************************************************************************)
ListParams ==
  { << >>, [query |-> <<"a", "l">>], [limit |-> Num(1), offset |-> Num(1)],
    [limit |-> Num(0)], [limit |-> Num(-1)], [offset |-> Num(-1)],
    [limit |-> Fraction] }

\* (a query spliced into the statement text: what follows a ";" runs as a
\* statement of its own, here DELETE FROM contacts)
AfterSelect_Spliced(table, parameter) ==
  IF \E i \in 1..Len(parameter) : parameter[i] = ";" THEN << >> ELSE table

\* the query string travels as a bound parameter of the SELECT: whatever it
\* holds, the statement reads the table and leaves it as it is
AfterSelect(table, parameter) == table

listContacts(p, params) ==
  /\ Begin(p, "listContacts", params)
  /\ contacts' = AfterSelect(contacts, ParamQuery(params))
  /\ UNCHANGED <<embeddings, nextId, now, config, loc>>
  /\ IF ListRejected(params)
     THEN Finish(p, RetThrow)
     ELSE \E rows \in listContactsRows(contacts, params) :
            Finish(p, RetList(rows))

searchContacts(p, query) ==
  /\ Begin(p, "searchContacts", query)
  /\ contacts' = AfterSelect(contacts, query)
  /\ UNCHANGED <<embeddings, nextId, now, config>>
  /\ \E regularResults \in listContactsRows(contacts, [query |-> query]) :
       IF ~embeddingsEnabled
       THEN /\ Finish(p, RetList(regularResults))
            /\ UNCHANGED loc
       ELSE \* Promise.all: the lexical query has run, the provider is called
            /\ pc' = [pc EXCEPT ![p] = "semanticSearch"]
            /\ loc' = [loc EXCEPT ![p] =
                 [outcome |-> "none", regularResults |-> regularResults,
                  semanticResults |-> << >>]]
            /\ UNCHANGED ret

\* semanticSearch from the provider's answer on, then the merge
semanticSearch(p, outcome) ==
  /\ pc[p] = "semanticSearch"
  /\ UNCHANGED <<contacts, embeddings, nextId, now, config, op, arg>>
  /\ \E semanticResults \in
         IF outcome.kind = "vector" /\ FitsVectorColumn(outcome.v)
         THEN semanticQuery(contacts, embeddings, outcome.v)
         ELSE {<< >>} :
       /\ loc' = [loc EXCEPT ![p] =
                    [outcome |-> outcome.kind, queryEmbedding |-> outcome.v,
                     regularResults |-> loc[p].regularResults,
                     semanticResults |-> semanticResults]]
       /\ Finish(p, RetList(combinedResults(semanticResults,
                                            loc[p].regularResults)))

(***************************************************************************)
(* bulkInsertContacts                                                      *)
(***************************************************************************)
BulkInputs ==
  { << >>,
    << [name |-> <<"A", "l">>] >>,
    << [name |-> <<"b", "o">>, title |-> <<"d">>,
        tags |-> << <<"a", "l">> >>, birthdate |-> ValidDate],
       [name |-> <<"A", "l">>] >>,
    << [name |-> <<"A", "l">>],
       [name |-> <<"x">>, birthdate |-> InvalidDate] >> }

\* n successive reads of the clock, the first not before t
RECURSIVE ClockReadSeqs(_, _)
ClockReadSeqs(t, n) ==
  IF n = 0 THEN {<< >>}
  ELSE UNION { {<<u>> \o rest : rest \in ClockReadSeqs(u, n - 1)} :
               u \in ClockReads(t) }

BatchError == [index |-> -1, error |-> "Unknown error during bulk insert"]

bulkInsertContacts(p, inputs) ==
  /\ Begin(p, "bulkInsertContacts", inputs)
  /\ UNCHANGED <<embeddings, config>>
  /\ IF Len(inputs) = 0
     THEN /\ Finish(p, RetBulk(EmptyResult))
          /\ UNCHANGED <<contacts, nextId, now, loc>>
     ELSE
       /\ nextId + Len(inputs) - 1 <= MaxContacts
       /\ \E reads \in ClockReadSeqs(now, 2 * Len(inputs)) :
            /\ now' = reads[Len(reads)]
            /\ IF \E i \in 1..Len(inputs) : ~InputValid(inputs[i])
               THEN \* the one INSERT is rejected as a whole
                    /\ Finish(p, RetBulk([EmptyResult EXCEPT
                                            !.success = FALSE,
                                            !.errors = <<BatchError>>]))
                    /\ UNCHANGED <<contacts, nextId, loc>>
               ELSE
                 LET insertedContacts ==
                       [i \in 1..Len(inputs) |->
                          NewContactRow(inputs[i], nextId + i - 1,
                                        reads[2 * i - 1], reads[2 * i])]
                     result ==
                       [EmptyResult EXCEPT
                          !.contacts = insertedContacts,
                          !.processedCount = Len(insertedContacts)]
                 IN /\ contacts' =
                         [c \in DOMAIN contacts
                                  \cup (nextId..(nextId + Len(inputs) - 1)) |->
                            IF c \in DOMAIN contacts THEN contacts[c]
                            ELSE insertedContacts[c - nextId + 1]]
                    /\ nextId' = nextId + Len(inputs)
                    /\ IF config.ctx = "none"
                       THEN \* getEmbeddingsEnabled() throws: no context
                            /\ Finish(p, RetBulk([result EXCEPT
                                 !.success = FALSE,
                                 !.errors = <<BatchError>>]))
                            /\ UNCHANGED loc
                       ELSE IF config.ctx = "true"
                       THEN \* bulkCreateEmbeddings: one provider call each
                            /\ pc' = [pc EXCEPT ![p] = "bulkEmbeddings"]
                            /\ loc' = [loc EXCEPT ![p] =
                                 [outcome |-> "none", result |-> result,
                                  pending |-> 1..Len(insertedContacts),
                                  settled |-> << >>]]
                            /\ UNCHANGED ret
                       ELSE /\ Finish(p, RetBulk(result))
                            /\ UNCHANGED loc

\* one createContactEmbedding of bulkCreateEmbeddings, from the provider's
\* answer on; Promise.allSettled resolves with the last of them
bulkCreateEmbeddings(p, i, outcome) ==
  /\ pc[p] = "bulkEmbeddings"
  /\ i \in loc[p].pending
  /\ UNCHANGED <<contacts, nextId, now, config, op, arg>>
  /\ LET contact == loc[p].result.contacts[i]
     IN embeddings' =
          IF outcome.kind = "vector"
          THEN EmbeddingsWith(contacts, embeddings, contact.id,
                              createContactEmbeddingText(contact), outcome.v)
          ELSE embeddings
  /\ loc' = [loc EXCEPT ![p].outcome = outcome.kind,
                        ![p].pending = @ \ {i},
                        ![p].settled =
                          [j \in DOMAIN loc[p].settled \cup {i} |->
                             IF j = i THEN outcome.kind
                             ELSE loc[p].settled[j]]]
  /\ IF loc[p].pending = {i}
     THEN Finish(p, RetBulk(loc[p].result))
     ELSE UNCHANGED <<pc, ret>>

(***************************************************************************)
(* bulkUpdateContacts                                                      *)
(***************************************************************************)
\* a null entry of the input array
NullEntry == [null |-> TRUE]

BulkUpdates ==
  { << >>,
    << [id |-> 1, data |-> [name |-> <<"a", "l">>, title |-> << >>,
                           tags |-> << >>]],
       [id |-> NilUuid, data |-> << >>],
       [id |-> 2, data |-> << >>] >>,
    << [id |-> 2, data |-> << >>],
       [id |-> 1, data |-> [birthdate |-> InvalidDate]] >>,
    << NullEntry, [id |-> EmptyId, data |-> << >>], [id |-> 1, data |-> << >>] >> }

\* the first index from i on whose entry the loop does not skip
RECURSIVE NextEntry(_, _, _)
NextEntry(entries, skipped, i) ==
  IF i > Len(entries) \/ entries[i] \notin skipped THEN i
  ELSE NextEntry(entries, skipped, i + 1)

bulkUpdateContacts(p, updates) ==
  /\ Begin(p, "bulkUpdateContacts", updates)
  /\ UNCHANGED <<contacts, embeddings, nextId, now, config>>
  /\ IF Len(updates) = 0
     THEN /\ Finish(p, RetBulk(EmptyResult))
          /\ UNCHANGED loc
     ELSE /\ pc' = [pc EXCEPT ![p] = "bulkUpdateNext"]
          /\ loc' = [loc EXCEPT ![p] = UpdateLocals]
          /\ UNCHANGED ret

\* one turn of the loop: skip null entries, then updateContact
bulkUpdateNext(p) ==
  /\ pc[p] = "bulkUpdateNext"
  /\ UNCHANGED <<embeddings, nextId, config, op, arg>>
  /\ LET i == NextEntry(arg[p], {NullEntry}, loc[p].i)
     IN IF i > Len(arg[p])
        THEN /\ Finish(p, RetBulk(loc[p].result))
             /\ UNCHANGED <<contacts, now, loc>>
        ELSE UpdateWrite(p, TRUE, arg[p][i], [loc[p] EXCEPT !.i = i])

(***************************************************************************)
(* bulkDeleteContacts                                                      *)
(***************************************************************************)
BulkDeleteIds ==
  { << >>, <<1, 1>>, <<NilUuid, MalformedId, 2>>,
    <<EmptyId, 1, MalformedId>> }

EmptyDeleteResult ==
  [success |-> TRUE, processedCount |-> 0, errors |-> << >>,
   deletedIds |-> << >>]

bulkDeleteContacts(p, ids) ==
  /\ Begin(p, "bulkDeleteContacts", ids)
  /\ UNCHANGED <<contacts, embeddings, nextId, now, config>>
  /\ IF Len(ids) = 0
     THEN /\ Finish(p, RetBulk(EmptyDeleteResult))
          /\ UNCHANGED loc
     ELSE /\ pc' = [pc EXCEPT ![p] = "bulkDeleteNext"]
          /\ loc' = [loc EXCEPT ![p] =
               [outcome |-> "none", i |-> 1, result |-> EmptyDeleteResult]]
          /\ UNCHANGED ret

\* one turn of the loop: skip falsy ids, then deleteContact
bulkDeleteNext(p) ==
  /\ pc[p] = "bulkDeleteNext"
  /\ UNCHANGED <<nextId, now, config, op, arg>>
  /\ LET i == NextEntry(arg[p], {EmptyId}, loc[p].i)
     IN IF i > Len(arg[p])
        THEN /\ Finish(p, RetBulk(loc[p].result))
             /\ UNCHANGED <<contacts, embeddings, loc>>
        ELSE LET id == arg[p][i]
                 deleted == DeleteReturns(contacts, id)
             IN /\ contacts' = IF deleted THEN ContactsWithout(contacts, id)
                               ELSE contacts
                /\ embeddings' = IF deleted
                                 THEN EmbeddingsWithout(embeddings, id)
                                 ELSE embeddings
                /\ loc' = [loc EXCEPT
                     ![p].i = i + 1,
                     ![p].result =
                       IF deleted
                       THEN [@ EXCEPT !.deletedIds = Append(@, id),
                                      !.processedCount = @ + 1]
                       ELSE [@ EXCEPT !.errors =
                               Append(@, BulkError(i,
                                  "Contact not found or deletion failed",
                                  id))]]
                /\ UNCHANGED <<pc, ret>>

(***************************************************************************)
(* The caller takes the result; the next operation may start.              *)
(***************************************************************************)
Return(p) ==
  /\ pc[p] = "done"
  /\ pc' = [pc EXCEPT ![p] = "idle"]
  /\ op' = [op EXCEPT ![p] = "none"]
  /\ arg' = [arg EXCEPT ![p] = << >>]
  /\ loc' = [loc EXCEPT ![p] = NoLoc]
  /\ ret' = [ret EXCEPT ![p] = RetNone]
  /\ UNCHANGED <<contacts, embeddings, nextId, now, config>>

\* the inputs the callers draw from when operations run one at a time
SerialInputs ==
  [ input |-> ContactInputs, data |-> Partials, id |-> CallerIds,
    params |-> ListParams, query |-> Queries, outcome |-> ProviderOutcomes,
    inputs |-> BulkInputs, updates |-> BulkUpdates, ids |-> BulkDeleteIds ]

\* the inputs the callers draw from when operations overlap
OverlapInputs ==
  [ input |-> { [name |-> <<"A", "l">>] },
    data |-> { [name |-> <<"a", "l">>, title |-> << >>, tags |-> << >>] },
    id |-> {1},
    params |-> { << >> },
    query |-> { <<"a", "l">> },
    outcome |-> { [kind |-> "fail", v |-> << >>],
                  [kind |-> "empty", v |-> << >>],
                  [kind |-> "vector", v |-> Pad(<<1, 1, 0>>)] },
    inputs |-> { << [name |-> <<"A", "l">>] >> },
    updates |-> { << [id |-> 1, data |-> << >>] >> },
    ids |-> { <<1>> } ]

Step(p, in) ==
  \/ \E input \in in.input : createContact(p, input)
  \/ \E outcome \in in.outcome : createContactEmbedding(p, outcome)
  \/ \E id \in in.id : getContact(p, id)
  \/ \E id \in in.id, data \in in.data :
       updateContact(p, [id |-> id, data |-> data])
  \/ \E outcome \in in.outcome : updateContactEmbedding(p, outcome)
  \/ updateEmbeddingInsert(p)
  \/ \E id \in in.id : deleteContact(p, id)
  \/ \E params \in in.params : listContacts(p, params)
  \/ \E query \in in.query : searchContacts(p, query)
  \/ \E outcome \in in.outcome : semanticSearch(p, outcome)
  \/ \E inputs \in in.inputs : bulkInsertContacts(p, inputs)
  \/ \E i \in 1..MaxContacts, outcome \in in.outcome :
       bulkCreateEmbeddings(p, i, outcome)
  \/ \E updates \in in.updates : bulkUpdateContacts(p, updates)
  \/ bulkUpdateNext(p)
  \/ \E ids \in in.ids : bulkDeleteContacts(p, ids)
  \/ bulkDeleteNext(p)
  \/ Return(p)

\* operations do not overlap: one caller, whose operations run to
\* completion one after the other
SerialCaller == 1

NextSerial == Step(SerialCaller, SerialInputs)

SpecSerial == Init /\ [][NextSerial]_vars

\* operations of different callers overlap freely, on a service whose
\* every embedding path is switched on
InitOverlap == Init /\ config = [opt |-> "undefined", ctx |-> "true"]

Next == \E p \in Procs : Step(p, OverlapInputs)

Spec == InitOverlap /\ [][Next]_vars

(***************************************************************************)
(* Progress.  A statement sent to the database completes, so the steps     *)
(* that wait for the database alone are taken when they can be.  The       *)
(* steps that follow the provider's answer wait for the provider, which    *)
(* createEmbedding awaits without a timeout: nothing makes them happen.    *)
(***************************************************************************)
DatabaseStep(p) == updateEmbeddingInsert(p)

\* where each caller stands; every database step moves it
Position == pc

\* one caller creating, updating, deleting and searching (with the empty
\* query), its provider calls answered in any way or not at all
NextLive ==
  \/ \E input \in OverlapInputs.input : createContact(SerialCaller, input)
  \/ \E outcome \in OverlapInputs.outcome :
       createContactEmbedding(SerialCaller, outcome)
  \/ \E id \in OverlapInputs.id, data \in OverlapInputs.data :
       updateContact(SerialCaller, [id |-> id, data |-> data])
  \/ \E outcome \in OverlapInputs.outcome :
       updateContactEmbedding(SerialCaller, outcome)
  \/ updateEmbeddingInsert(SerialCaller)
  \/ \E id \in OverlapInputs.id : deleteContact(SerialCaller, id)
  \/ searchContacts(SerialCaller, << >>)
  \/ \E outcome \in OverlapInputs.outcome :
       semanticSearch(SerialCaller, outcome)
  \/ Return(SerialCaller)

SpecLive ==
  InitOverlap /\ [][NextLive]_vars /\ WF_Position(DatabaseStep(SerialCaller))

(***************************************************************************)
(* The read operations on stores that earlier operations have left behind: *)
(* stores with more rows than a page or the top-K holds, with equal        *)
(* updatedAt values, and with pattern characters in their fields.          *)
(***************************************************************************)
\* query strings: empty, plain, mixed case, LIKE metacharacters, a quote,
\* the start of a second SQL statement
QueryStrings ==
  { << >>, <<"a", "l">>, <<"D">>, <<"%">>, <<"_">>, <<"a", "\\">>,
    <<"'">>, <<"'", ";">> }

\* what searchContacts may be called with: a query string, null, undefined
SearchQueries == QueryStrings \cup {NullText, UndefinedText}

\* no contact, no embedding
EmptyStore ==
  [ contacts |-> << >>, embeddings |-> {}, nextId |-> 1, now |-> 0 ]

\* three contacts, two of them written in the same millisecond, with
\* pattern characters in their fields; each has an embedding row
SmallStore ==
  LET rows ==
        << NewContactRow([name |-> <<"A", "l">>,
                          email |-> << <<"a", "%">> >>], 1, 0, 1),
           NewContactRow([name |-> <<"b", "o">>, title |-> <<"d">>,
                          tags |-> << <<"a", "l">> >>,
                          birthdate |-> ValidDate], 2, 1, 1),
           NewContactRow([name |-> <<"x", "'">>, notes |-> <<"a", "\\", "b">>],
                         3, 0, 0) >>
      vectors == << Pad(<<1, 1, 0>>), Pad(<<0, 1, 1>>), Pad(<<1, 0, 0>>) >>
  IN [ contacts |-> [c \in 1..3 |-> rows[c]],
       embeddings |->
         { [ id |-> c, contactId |-> c,
             content |-> createContactEmbeddingText(rows[c]),
             embedding |-> vectors[c] ] : c \in 1..3 },
       nextId |-> 4, now |-> 1 ]

\* more contacts than the default page holds, each written in its own
\* millisecond; more of them than the top-K holds have an embedding row
LargeStore ==
  LET n == DefaultLimit + 2
      rows == [c \in 1..n |->
                 NewContactRow([name |-> IF c % 2 = 0 THEN <<"a", "l">>
                                         ELSE <<"b", "o">>], c, c, c)]
  IN [ contacts |-> rows,
       embeddings |->
         { [ id |-> c, contactId |-> c,
             content |-> createContactEmbeddingText(rows[c]),
             embedding |-> IF c <= TopK + 2 THEN Pad(<<c, 1, 0>>)
                           ELSE Pad(<<1, 0, 1>>) ] : c \in 1..(TopK + 3) },
       nextId |-> n + 1, now |-> n ]

QueryStores == {EmptyStore, SmallStore, LargeStore}

QueryListParams ==
  ListParams
  \cup {[query |-> q] : q \in QueryStrings}
  \cup { [limit |-> Num(DefaultLimit + 1)], [offset |-> Num(DefaultLimit)],
         [offset |-> Num(DefaultLimit + 1), limit |-> Num(2)],
         [query |-> <<"a", "l">>, limit |-> Num(1), offset |-> Num(1)],
         [limit |-> Num(-1), offset |-> Num(1)], [offset |-> Fraction] }

InitQuery ==
  /\ \E store \in QueryStores :
       /\ contacts = store.contacts
       /\ embeddings = store.embeddings
       /\ nextId = store.nextId
       /\ now = store.now
  /\ config \in Configs
  /\ pc = [p \in Procs |-> "idle"]
  /\ op = [p \in Procs |-> "none"]
  /\ arg = [p \in Procs |-> << >>]
  /\ loc = [p \in Procs |-> NoLoc]
  /\ ret = [p \in Procs |-> RetNone]

NextQuery ==
  \/ \E id \in CallerIds : getContact(SerialCaller, id)
  \/ \E params \in QueryListParams : listContacts(SerialCaller, params)
  \/ \E query \in SearchQueries : searchContacts(SerialCaller, query)
  \/ \E outcome \in ProviderOutcomes : semanticSearch(SerialCaller, outcome)
  \/ Return(SerialCaller)

SpecQuery == InitQuery /\ [][NextQuery]_vars

(***************************************************************************)
(* Properties.                                                             *)
(***************************************************************************)
EmbeddingsOf(contactId) == {e \in embeddings : e.contactId = contactId}

Completed(p, name) == pc[p] = "done" /\ op[p] = name

\* C1: in every state of every interleaving, each embedding row refers to a
\* contact that exists: a delete takes the contact's embedding rows with it
\* and an insert that arrives after the delete leaves no row.
C1_NoOrphanEmbedding ==
  \A e \in embeddings : e.contactId \in DOMAIN contacts

\* a create or update got a vector from the provider after its contact had
\* been deleted by another caller, and finished
C1_Witness ==
  \E p \in Procs :
    /\ pc[p] = "done"
    /\ op[p] \in {"createContact", "updateContact"}
    /\ loc[p].outcome = "vector"
    /\ loc[p].contact.id \notin DOMAIN contacts

\* C2: with embeddings enabled, a search whose provider call failed or gave
\* no vector does not throw and returns the sequence listContacts({query})
\* returns on that store state.
C2_FallbackIsLexical ==
  \A p \in Procs :
    (Completed(p, "searchContacts") /\ embeddingsEnabled
       /\ loc[p].outcome \in {"fail", "empty"})
    => /\ ret[p].kind = "list"
       /\ ret[p].value = loc[p].regularResults
       /\ ret[p].value \in listContactsRows(contacts, [query |-> arg[p]])

\* such a search returned a contact
C2_Witness ==
  \E p \in Procs :
    /\ Completed(p, "searchContacts") /\ embeddingsEnabled
    /\ loc[p].outcome = "fail"
    /\ arg[p] # << >>
    /\ Len(ret[p].value) > 0

\* C3: with embeddings enabled, createContact and updateContact of an
\* existing contact return the contact they wrote, and the row is stored
\* with the requested values, whatever the provider did.
C3_WriteSurvivesProvider ==
  \A p \in Procs :
    (pc[p] = "done" /\ op[p] \in {"createContact", "updateContact"}
       /\ embeddingsEnabled /\ loc[p].outcome # "none")
    => /\ ret[p].kind = "contact"
       /\ ret[p].value.id \in DOMAIN contacts
       /\ contacts[ret[p].value.id] = ret[p].value
       /\ LET requested == IF op[p] = "createContact" THEN arg[p]
                           ELSE arg[p].data
          IN \A f \in DOMAIN requested : ret[p].value[f] = requested[f]

\* an update that set fields finished after its provider call had failed
C3_Witness ==
  \E p \in Procs :
    /\ Completed(p, "updateContact") /\ embeddingsEnabled
    /\ loc[p].outcome = "fail"
    /\ ret[p].kind = "contact"
    /\ "name" \in DOMAIN arg[p].data

Range(s) == {s[i] : i \in 1..Len(s)}

Ids(s) == {s[i].id : i \in 1..Len(s)}

\* C4: the sequence searchContacts returns holds no identity twice, and each
\* of its contacts is in the result of listContacts({query}) or in the
\* result of the semantic path, also when a contact has several embedding
\* rows.
C4_SearchNoDuplicatesWithinUnion ==
  \A p \in Procs :
    (Completed(p, "searchContacts") /\ embeddingsEnabled)
    => /\ \A i, j \in 1..Len(ret[p].value) :
            i # j => ret[p].value[i].id # ret[p].value[j].id
       /\ Range(ret[p].value)
            \subseteq Range(loc[p].regularResults)
                      \cup Range(loc[p].semanticResults)

\* a search whose semantic path returned one contact twice, once for each
\* of its two embedding rows
C4_Witness ==
  \E p \in Procs :
    /\ Completed(p, "searchContacts")
    /\ Len(loc[p].semanticResults) = 2
    /\ loc[p].semanticResults[1].id = loc[p].semanticResults[2].id
    /\ Len(ret[p].value) = 1

\* s without the later occurrences of an identity
RECURSIVE FirstById(_)
FirstById(s) ==
  IF s = << >> THEN << >>
  ELSE LET rest == FirstById(SubSeq(s, 1, Len(s) - 1))
       IN IF s[Len(s)].id \in Ids(rest) THEN rest
          ELSE Append(rest, s[Len(s)])

\* s without the contacts whose identity is in ids
RECURSIVE WithoutIds(_, _)
WithoutIds(s, ids) ==
  IF s = << >> THEN << >>
  ELSE IF Head(s).id \in ids THEN WithoutIds(Tail(s), ids)
  ELSE <<Head(s)>> \o WithoutIds(Tail(s), ids)

\* C5: with embeddings enabled, searchContacts returns the contacts of the
\* semantic path in that path's order, then the contacts of the lexical
\* path that are not among them, in the lexical path's order.
C5_SemanticFirstThenLexical ==
  \A p \in Procs :
    (Completed(p, "searchContacts") /\ embeddingsEnabled)
    => ret[p].value =
         FirstById(loc[p].semanticResults)
         \o WithoutIds(loc[p].regularResults, Ids(loc[p].semanticResults))

\* the lexical path found two contacts; the semantic path found the second
\* of them, which the result lists first
C5_Witness ==
  \E p \in Procs :
    /\ Completed(p, "searchContacts") /\ embeddingsEnabled
    /\ Len(loc[p].semanticResults) = 1
    /\ Len(loc[p].regularResults) = 2
    /\ loc[p].semanticResults[1].id = loc[p].regularResults[2].id
    /\ ret[p].value = <<loc[p].regularResults[2], loc[p].regularResults[1]>>

\* C6: when updateContact of an existing contact has completed with
\* embeddings enabled, the embedding rows the contact had before are gone:
\* after a vector from the provider the contact has exactly one row, whose
\* content is the source text of the updated contact, and otherwise none.
C6_UpdateReplacesEmbedding ==
  \A p \in Procs :
    (Completed(p, "updateContact") /\ embeddingsEnabled
       /\ ret[p].kind = "contact")
    => IF loc[p].outcome = "vector"
       THEN /\ Cardinality(EmbeddingsOf(arg[p].id)) = 1
            /\ \A e \in EmbeddingsOf(arg[p].id) :
                 e.content = createContactEmbeddingText(ret[p].value)
       ELSE EmbeddingsOf(arg[p].id) = {}

\* the caller p starts the operation name in this step
Starts(p, name) == pc[p] = "idle" /\ op'[p] = name

\* C7: deleteContact returns true exactly when it removed the row with that
\* id and false otherwise, a malformed id included; it never throws; the
\* row is gone afterwards and its id never comes back, so a second call on
\* the same id returns false.
C7_DeleteReturnsWhetherRemoved ==
  [][ /\ \A p \in Procs :
           Starts(p, "deleteContact")
           => /\ pc'[p] = "done"
              /\ ret'[p] = RetBoolean(arg'[p] \in DOMAIN contacts)
              /\ arg'[p] \notin DOMAIN contacts'
              /\ \A c \in DOMAIN contacts \ {arg'[p]} :
                   c \in DOMAIN contacts' /\ contacts'[c] = contacts[c]
      /\ \A c \in 1..(nextId - 1) :
           c \notin DOMAIN contacts => c \notin DOMAIN contacts'
    ]_vars

\* a delete of an id that had been given to a contact returned false
C7_Witness ==
  \E p \in Procs :
    /\ Completed(p, "deleteContact")
    /\ arg[p] \in 1..(nextId - 1)
    /\ ret[p] = RetBoolean(FALSE)

\* C8: updateContact sets, on the addressed row, the fields of the partial
\* (empty values included) and updatedAt; id, createdAt and the fields the
\* partial lacks keep their values, and no other row changes.
C8_UpdateFrame ==
  [][ \A p \in Procs :
        /\ (Starts(p, "updateContact") /\ arg'[p].id \in DOMAIN contacts
              /\ InputValid(arg'[p].data))
           => /\ DOMAIN contacts' = DOMAIN contacts
              /\ \A f \in DOMAIN arg'[p].data :
                   contacts'[arg'[p].id][f] = arg'[p].data[f]
              /\ \A f \in DOMAIN contacts[arg'[p].id]
                           \ (DOMAIN arg'[p].data \cup {"updatedAt"}) :
                   contacts'[arg'[p].id][f] = contacts[arg'[p].id][f]
              /\ \A c \in DOMAIN contacts \ {arg'[p].id} :
                   contacts'[c] = contacts[c]
        /\ (op[p] = "updateContact" /\ pc[p] # "done")
           => contacts' = contacts
    ]_vars

\* an update with empty values for title and tags completed on a contact
\* that had a title and a tag, next to another contact
C8_Witness ==
  \E p \in Procs :
    /\ Completed(p, "updateContact")
    /\ ret[p].kind = "contact"
    /\ "title" \in DOMAIN arg[p].data
    /\ ret[p].value.title = << >> /\ ret[p].value.tags = << >>
    /\ ret[p].value.birthdate = ValidDate
    /\ Cardinality(DOMAIN contacts) = 2

\* C9: getContact and updateContact with a well-formed id that matches no
\* contact return null and do not throw; such an update changes no contact
\* row and no embedding row and does not call the provider.
C9_NotFoundIsNull ==
  [][ \A p \in Procs :
        /\ (Starts(p, "getContact") /\ IsUuid(arg'[p])
              /\ arg'[p] \notin DOMAIN contacts)
           => pc'[p] = "done" /\ ret'[p] = RetNull
        /\ (Starts(p, "updateContact") /\ IsUuid(arg'[p].id)
              /\ arg'[p].id \notin DOMAIN contacts
              /\ InputValid(arg'[p].data))
           => /\ pc'[p] = "done" /\ ret'[p] = RetNull
              /\ contacts' = contacts
              /\ embeddings' = embeddings
    ]_vars

\* an update of an id that matches nothing completed on a service with
\* embeddings enabled, beside a contact that has an embedding row
C9_Witness ==
  \E p \in Procs :
    /\ Completed(p, "updateContact") /\ embeddingsEnabled
    /\ ret[p] = RetNull
    /\ embeddings # {}

\* C10: every successful updateContact, also one without fields, leaves the
\* contact with an updatedAt strictly greater than the one it had.
C10_UpdatedAtStrictlyIncreases ==
  [][ \A p \in Procs :
        (Starts(p, "updateContact") /\ arg'[p].id \in DOMAIN contacts
           /\ InputValid(arg'[p].data))
        => contacts'[arg'[p].id].updatedAt > contacts[arg'[p].id].updatedAt
    ]_vars

\* the text q occurs in the text s, letter case aside
Contains(s, q) ==
  \E i \in 0..(Len(s) - Len(q)) :
    \A k \in 1..Len(q) : LowerChar(s[i + k]) = LowerChar(q[k])

\* q occurs in one of the searchable fields of the row
LiteralMatch(row, q) ==
  \/ \E f \in {"name", "company", "notes", "title", "location"} :
       Contains(row[f], q)
  \/ \E f \in {"email", "phone", "links", "tags"} :
       \E i \in 1..Len(row[f]) : Contains(row[f][i], q)

\* q holds no character that LIKE reads as part of a pattern
PlainQuery(q) == \A i \in 1..Len(q) : q[i] \notin {"%", "_", "\\"}

\* a limit or offset a caller may rightly pass: a whole number, not negative
ValidCount(n) == IsInteger(n) /\ n.whole >= 0

Max(a, b) == IF a >= b THEN a ELSE b

\* C11: listContacts returns the contacts that match the query (all of them
\* without a query), by updatedAt descending, cut to the positions
\* [offset, offset + limit) of that order; limit defaults to 50 and offset
\* to 0, and limit 0 gives the empty sequence without an error.
C11_ListIsPageOfSortedMatches ==
  \A p \in Procs :
    (Completed(p, "listContacts")
       /\ ("limit" \in DOMAIN arg[p] => ValidCount(arg[p].limit))
       /\ ("offset" \in DOMAIN arg[p] => ValidCount(arg[p].offset)))
    => LET q == IF "query" \in DOMAIN arg[p] THEN arg[p].query ELSE << >>
           limit == IF "limit" \in DOMAIN arg[p] THEN arg[p].limit.whole
                    ELSE DefaultLimit
           offset == IF "offset" \in DOMAIN arg[p] THEN arg[p].offset.whole
                     ELSE DefaultOffset
           M == IF q = << >> THEN DOMAIN contacts
                ELSE {c \in DOMAIN contacts : QueryMatches(contacts[c], q)}
           R == ret[p].value
       IN /\ ret[p].kind = "list"
          /\ PlainQuery(q) /\ q # << >>
               => M = {c \in DOMAIN contacts : LiteralMatch(contacts[c], q)}
          /\ Len(R) = Max(0, Min(limit, Cardinality(M) - offset))
          /\ \A i \in 1..Len(R) :
               /\ R[i].id \in M /\ R[i] = contacts[R[i].id]
               /\ \A j \in 1..Len(R) :
                    i < j => /\ R[i].id # R[j].id
                             /\ R[i].updatedAt >= R[j].updatedAt
               \* R[i] can stand at position offset + i of the whole order
               /\ Cardinality({c \in M : contacts[c].updatedAt
                                           > R[i].updatedAt}) <= offset + i - 1
               /\ Cardinality({c \in M : contacts[c].updatedAt
                                           >= R[i].updatedAt}) >= offset + i

\* a list without limit came back with 50 contacts from a store that holds
\* more
C11_Witness ==
  \E p \in Procs :
    /\ Completed(p, "listContacts")
    /\ DOMAIN arg[p] = {}
    /\ ret[p].kind = "list" /\ Len(ret[p].value) = DefaultLimit
    /\ Cardinality(DOMAIN contacts) > DefaultLimit

\* C12: listContacts with a negative or non-integer limit or offset is
\* rejected with an error; it never returns a result.
C12_BadPaginationRejected ==
  \A p \in Procs :
    (Completed(p, "listContacts")
       /\ \/ "limit" \in DOMAIN arg[p] /\ ~ValidCount(arg[p].limit)
          \/ "offset" \in DOMAIN arg[p] /\ ~ValidCount(arg[p].offset))
    => ret[p].kind = "throw"

\* C13: for every non-empty query, pattern characters and quotes included,
\* listContacts({query}) returns exactly the contacts in which the query
\* occurs as a literal, case-insensitive substring of a searchable field
\* (as far as the default page reaches).
C13_QueryIsLiteralSubstring ==
  \A p \in Procs :
    (Completed(p, "listContacts") /\ DOMAIN arg[p] = {"query"}
       /\ arg[p].query # << >>)
    => LET literal == {c \in DOMAIN contacts :
                         LiteralMatch(contacts[c], arg[p].query)}
       IN /\ ret[p].kind = "list"
          /\ Cardinality(literal) <= DefaultLimit
               => Ids(ret[p].value) = literal

\* the operations that only read
ReadOperations == {"getContact", "listContacts", "searchContacts"}

\* C14: getContact, listContacts and searchContacts leave the contact table
\* and the embedding table as they are, for every argument (query strings
\* that hold SQL included) and every provider outcome.
C14_ReadsChangeNothing ==
  [][ \A p \in Procs :
        (op'[p] \in ReadOperations /\ pc[p] # "done")
        => contacts' = contacts /\ embeddings' = embeddings
    ]_vars

\* a search for a string that ends one SQL statement and starts another
\* completed, its provider call failed, and the store still has its rows
C14_Witness ==
  \E p \in Procs :
    /\ Completed(p, "searchContacts")
    /\ \E i \in 1..Len(arg[p]) : arg[p][i] = ";"
    /\ loc[p].outcome = "fail"
    /\ contacts # << >> /\ embeddings # {}

\* C15: every stored contact has email, phone, links and tags that are
\* not null and title, company, notes and location that are not null; a
\* contact created with only a name has them all empty.
C15_NoNullFields ==
  /\ \A c \in DOMAIN contacts :
       \A f \in TextFields \cup ArrayFields : contacts[c][f] # NullOf(f)
  /\ \A p \in Procs :
       (Completed(p, "createContact") /\ DOMAIN arg[p] = {"name"})
       => /\ ret[p].kind = "contact"
          /\ \A f \in TextFields \cup ArrayFields : ret[p].value[f] = << >>
          /\ ret[p].value.id \in DOMAIN contacts
               => \A f \in TextFields \cup ArrayFields :
                    contacts[ret[p].value.id][f] = << >>

\* a contact created with only a name is stored, and a create and an update
\* that carried null have been turned down
C15_Witness ==
  \E p \in Procs :
    /\ Completed(p, "updateContact")
    /\ arg[p].data = [title |-> NullText]
    /\ arg[p].id \in DOMAIN contacts
    /\ ret[p].kind = "throw"
    /\ contacts[arg[p].id].name = <<"A", "l">>
    /\ contacts[arg[p].id].title = << >>

\* an entry of a bulk update that the statement accepts
ProperUpdate(u) ==
  u # NullEntry /\ IsUuid(u.id) /\ InputValid(u.data)

\* C16: bulkUpdateContacts over N entries of which k name no contact returns
\* processedCount = N - k, the N - k updated records in input order, and k
\* errors, each with the position of its entry and the entry; entries after
\* a not-found one are applied all the same.
C16_BulkUpdateAccountsNotFound ==
  \A p \in Procs :
    (Completed(p, "bulkUpdateContacts")
       /\ \A i \in 1..Len(arg[p]) : ProperUpdate(arg[p][i]))
    => LET Found(u) == u.id \in DOMAIN contacts
           Missing(u) == u.id \notin DOMAIN contacts
           found == SelectSeq(arg[p], Found)
           k == Len(SelectSeq(arg[p], Missing))
           r == ret[p].value
       IN /\ ret[p].kind = "bulk"
          /\ r.processedCount = Len(arg[p]) - k
          /\ Len(r.contacts) = Len(found)
          /\ \A j \in 1..Len(found) :
               /\ r.contacts[j].id = found[j].id
               /\ \A f \in DOMAIN found[j].data :
                    r.contacts[j][f] = found[j].data[f]
          /\ Len(r.errors) = k
          /\ \A j \in 1..k :
               /\ r.errors[j].index + 1 \in 1..Len(arg[p])
               /\ Missing(arg[p][r.errors[j].index + 1])
               /\ r.errors[j].data = arg[p][r.errors[j].index + 1]
               /\ \A h \in 1..(j - 1) : r.errors[h].index < r.errors[j].index
          \* the found entries are in the store as they were asked for
          /\ \A i \in 1..Len(arg[p]) :
               (Found(arg[p][i])
                  /\ \A h \in (i + 1)..Len(arg[p]) : arg[p][h].id # arg[p][i].id)
               => \A f \in DOMAIN arg[p][i].data :
                    contacts[arg[p][i].id][f] = arg[p][i].data[f]

\* a bulk update of three entries completed whose second named no contact
\* and whose first and third were applied
C16_Witness ==
  \E p \in Procs :
    /\ Completed(p, "bulkUpdateContacts")
    /\ Len(arg[p]) = 3
    /\ ret[p].value.processedCount = 2
    /\ Len(ret[p].value.errors) = 1
    /\ ret[p].value.errors[1].index = 1
    /\ ret[p].value.contacts[2].id = arg[p][3].id

C18_BulkInsertAllOrNone ==
  [][ \A p \in Procs :
        (op'[p] = "bulkInsertContacts" /\ pc[p] # "done" /\ pc'[p] = "done"
           /\ Len(arg'[p]) > 0)
        => LET r == ret'[p].value
           IN IF ~r.success
              THEN /\ Starts(p, "bulkInsertContacts")
                   /\ contacts' = contacts
                   /\ r.processedCount = 0 /\ r.contacts = << >>
                   /\ Len(r.errors) = 1
              ELSE /\ r.processedCount = Len(arg'[p])
                   /\ r.errors = << >>
                   /\ Len(r.contacts) = Len(arg'[p])
                   /\ \A i \in 1..Len(r.contacts) :
                        /\ r.contacts[i].name = arg'[p][i].name
                        /\ r.contacts[i].id \in DOMAIN contacts'
                        /\ contacts'[r.contacts[i].id] = r.contacts[i]
                        /\ \A j \in 1..Len(r.contacts) :
                             i # j => r.contacts[i].id # r.contacts[j].id
    ]_vars

\* C19: on a service whose embeddings are enabled, by its constructor
\* options or by the ambient context, bulkInsertContacts makes one embedding
\* attempt for every inserted contact and returns when all have settled; a
\* failed attempt leaves the batch result as it is and keeps no other
\* contact from getting its embedding row.
C19_BulkInsertEmbedsEach ==
  \A p \in Procs :
    (Completed(p, "bulkInsertContacts") /\ embeddingsEnabled
       /\ Len(arg[p]) > 0 /\ \A i \in 1..Len(arg[p]) : InputValid(arg[p][i]))
    => /\ "settled" \in DOMAIN loc[p]
       /\ DOMAIN loc[p].settled = 1..Len(arg[p])
       /\ ret[p].value.success
       /\ ret[p].value.processedCount = Len(arg[p])
       /\ \A i \in 1..Len(arg[p]) :
            loc[p].settled[i] = "vector"
            => EmbeddingsOf(ret[p].value.contacts[i].id) # {}

\* the cosine of a and q is strictly greater than 0.5: a . q > 0 and
\* 4 (a . q)^2 > |a|^2 |q|^2
AboveHalf(a, q) ==
  Dot(a, q) > 0 /\ 4 * Dot(a, q) * Dot(a, q) > Dot(a, a) * Dot(q, q)

\* a is strictly more similar to q than b is (both at a positive cosine)
MoreSimilar(a, b, q) ==
  Dot(a, q) * Dot(a, q) * Dot(b, b) > Dot(b, q) * Dot(b, q) * Dot(a, a)

\* C20: when the provider returns a vector, the semantic path returns at
\* most 10 contacts, each joined from an embedding row whose similarity to
\* the query vector is strictly greater than 0.5, in non-increasing order
\* of similarity, and leaves out no qualifying row while it returns a less
\* similar one (every contact having at most one embedding row).
C20_SemanticTopTenAboveHalf ==
  \A p \in Procs :
    (Completed(p, "searchContacts") /\ loc[p].outcome = "vector"
       /\ \A c \in DOMAIN contacts : Cardinality(EmbeddingsOf(c)) <= 1)
    => LET q == loc[p].queryEmbedding
           S == loc[p].semanticResults
           Q == {e \in embeddings : /\ e.contactId \in DOMAIN contacts
                                    /\ AboveHalf(e.embedding, q)}
           row(c) == CHOOSE e \in embeddings : e.contactId = c.id
       IN /\ Len(S) = Min(10, Cardinality(Q))
          /\ \A i \in 1..Len(S) :
               /\ S[i] = contacts[S[i].id]
               /\ \E e \in Q : e.contactId = S[i].id
               /\ \A j \in (i + 1)..Len(S) :
                    /\ S[i].id # S[j].id
                    /\ ~MoreSimilar(row(S[j]).embedding, row(S[i]).embedding, q)
               /\ \A e \in Q :
                    e.contactId \notin Ids(S)
                    => ~MoreSimilar(e.embedding, row(S[i]).embedding, q)

\* a search returned 10 semantic results from a store in which 12 embedding
\* rows lie above 0.5 and one lies at exactly 0.5
C20_Witness ==
  \E p \in Procs :
    /\ Completed(p, "searchContacts") /\ loc[p].outcome = "vector"
    /\ Len(loc[p].semanticResults) = 10
    /\ Cardinality({e \in embeddings :
                      AboveHalf(e.embedding, loc[p].queryEmbedding)}) = 12
    /\ \E e \in embeddings :
         /\ Dot(e.embedding, loc[p].queryEmbedding) > 0
         /\ 4 * Dot(e.embedding, loc[p].queryEmbedding)
              * Dot(e.embedding, loc[p].queryEmbedding)
            = Dot(e.embedding, e.embedding)
              * Dot(loc[p].queryEmbedding, loc[p].queryEmbedding)

\* the positions at which a caller has called the embedding provider and
\* awaits its answer, or is about to write the row made from the answer
ProviderCalled ==
  {"createEmbedding", "updateEmbedding", "updateInsert", "semanticSearch",
   "bulkEmbeddings"}

\* C21: on a service whose embeddings are disabled, no operation calls the
\* embedding provider, the embedding table stays as it was built (empty),
\* and searchContacts(query) returns what listContacts({query}) returns.
C21_DisabledDoesNoEmbeddingWork ==
  ~embeddingsEnabled
  => /\ \A p \in Procs : pc[p] \notin ProviderCalled
     /\ embeddings = {}
     /\ \A p \in Procs :
          Completed(p, "searchContacts")
          => /\ ret[p].kind = "list"
             /\ ret[p].value \in listContactsRows(contacts, [query |-> arg[p]])

\* the empty string, null or undefined as a query
NoQuery(q) == q \in {<< >>, NullText, UndefinedText}

\* C22 as stated: searchContacts with an empty, null or undefined query does
\* not throw and returns all contacts; with embeddings enabled the provider
\* has been called for it.
C22_FalsyQueryReturnsAll ==
  \A p \in Procs :
    (Completed(p, "searchContacts") /\ NoQuery(arg[p]))
    => /\ ret[p].kind = "list"
       /\ Ids(ret[p].value) = DOMAIN contacts
       /\ embeddingsEnabled => loc[p].outcome # "none"

\* C22: searchContacts with an empty, null or undefined query does not
\* throw; its lexical path filters nothing and gives the first 50 contacts
\* by updatedAt descending (all of them when there are no more than 50);
\* with embeddings enabled the provider has been called for the query and
\* the result is the semantic path's contacts followed by the lexical ones
\* that are not among them.
C22_FalsyQueryReturnsFirstPage ==
  \A p \in Procs :
    (Completed(p, "searchContacts") /\ NoQuery(arg[p]))
    => LET L == IF embeddingsEnabled THEN loc[p].regularResults
                ELSE ret[p].value
       IN /\ ret[p].kind = "list"
          /\ Len(L) = Min(DefaultLimit, Cardinality(DOMAIN contacts))
          /\ \A i \in 1..Len(L) :
               /\ L[i].id \in DOMAIN contacts /\ L[i] = contacts[L[i].id]
               /\ \A j \in 1..Len(L) :
                    i < j => /\ L[i].id # L[j].id
                             /\ L[i].updatedAt >= L[j].updatedAt
               /\ \A c \in DOMAIN contacts \ Ids(L) :
                    contacts[c].updatedAt <= L[i].updatedAt
          /\ embeddingsEnabled
               => /\ loc[p].outcome # "none"
                  /\ ret[p].value =
                       FirstById(loc[p].semanticResults)
                       \o SelectSeq(L, LAMBDA c :
                                       c.id \notin Ids(loc[p].semanticResults))

\* a search for null on a store of more than 50 contacts, with embeddings
\* enabled and a vector from the provider, returned semantic results first
\* and 50 contacts in all
C22_Witness ==
  \E p \in Procs :
    /\ Completed(p, "searchContacts") /\ arg[p] = NullText
    /\ embeddingsEnabled /\ loc[p].outcome = "vector"
    /\ Len(loc[p].semanticResults) > 0
    /\ Cardinality(DOMAIN contacts) > DefaultLimit
    /\ Len(ret[p].value) = DefaultLimit

\* the provider call of caller p ends in this step without a usable vector
NoVector(p) == loc'[p].outcome \in {"fail", "empty"}

\* C23: a provider call that fails and one that returns an empty vector end
\* createContact, updateContact and searchContacts alike: either way the
\* contact table stays as the operation's write left it, create and search
\* leave the embedding table alone and return the contact written / the
\* lexical result, and update leaves the table that an empty vector leaves
\* (the contact's old rows deleted, the insert of the empty vector rejected)
\* and returns the contact written.
C23_FailureAndEmptyVectorAlike ==
  [][ \A p \in Procs :
        /\ (pc[p] = "createEmbedding" /\ NoVector(p))
           => /\ contacts' = contacts /\ embeddings' = embeddings
              /\ ret'[p] = RetContact(loc[p].contact)
        /\ (pc[p] = "semanticSearch" /\ NoVector(p))
           => /\ contacts' = contacts /\ embeddings' = embeddings
              /\ ret'[p] = RetList(loc[p].regularResults)
        /\ (pc[p] = "updateEmbedding" /\ op[p] = "updateContact"
              /\ NoVector(p))
           => /\ contacts' = contacts
              /\ embeddings' = {e \in embeddings :
                                   e.contactId # loc[p].contact.id}
              /\ pc'[p] = "done" => ret'[p] = RetContact(loc[p].contact)
        /\ (pc[p] = "updateInsert" /\ op[p] = "updateContact"
              /\ loc[p].outcome = "empty")
           => /\ contacts' = contacts /\ embeddings' = embeddings
              /\ ret'[p] = RetContact(loc[p].contact)
    ]_vars

\* C24: when operations do not overlap, every contact has at most one
\* embedding row in every reachable state, whatever the operations and the
\* provider outcomes were.
C24_AtMostOneEmbeddingSerial ==
  \A c \in DOMAIN contacts : Cardinality(EmbeddingsOf(c)) <= 1

\* an update of a contact finished after the provider gave a vector and the
\* row made from it was inserted; the contact has that one row
C24_Witness ==
  \E p \in Procs :
    /\ pc[p] = "done" /\ op[p] \in {"updateContact", "bulkUpdateContacts"}
    /\ loc[p].outcome = "vector" /\ loc[p].inserted
    /\ \E e \in embeddings :
         /\ EmbeddingsOf(loc[p].contact.id) = {e}
         /\ e.embedding = loc[p].embedding

\* C25: once two updateContact calls on the same contact, for both of which
\* the provider gave a vector, have both completed, the contact has exactly
\* one embedding row again (zero or two rows occur only while one of the
\* calls is still under way).
C25_OneRowAfterOverlappingUpdates ==
  \A p, q \in Procs :
    (/\ p # q
     /\ Completed(p, "updateContact") /\ Completed(q, "updateContact")
     /\ loc[p].outcome = "vector" /\ loc[q].outcome = "vector"
     /\ arg[p].id = arg[q].id /\ arg[p].id \in DOMAIN contacts)
    => Cardinality(EmbeddingsOf(arg[p].id)) = 1

\* C26: with embeddings enabled, a createContact that has written its
\* contact and called the provider eventually returns the contact, also
\* when the provider never answers; likewise updateContact and
\* searchContacts eventually return.
C26_ProviderNeverBlocks ==
  \A p \in Procs :
    /\ (op[p] = "createContact" /\ pc[p] = "createEmbedding")
         ~> (pc[p] = "done" /\ ret[p].kind = "contact")
    /\ (op[p] = "updateContact" /\ pc[p] = "updateEmbedding")
         ~> (pc[p] = "done" /\ ret[p].kind = "contact")
    /\ (op[p] = "searchContacts" /\ pc[p] = "semanticSearch")
         ~> (pc[p] = "done" /\ ret[p].kind = "list")

\* C27: bulkInsertContacts([x]) does for x what createContact(x) does on the
\* same service with the same provider answer: for an input the database
\* accepts it reports success, the stored contact has the fields of x (the
\* defaults for the absent ones), and the contact has an embedding row, with
\* the text synthesized from it, exactly when the service's embeddings are
\* enabled and the provider gave a vector.
C27_BulkOfOneIsCreate ==
  \A p \in Procs :
    (Completed(p, "bulkInsertContacts") /\ Len(arg[p]) = 1
       /\ InputValid(arg[p][1]))
    => LET r == ret[p].value
           created == NewContactRow(arg[p][1], 0, 0, 0)
       IN /\ r.success
          /\ Len(r.contacts) = 1
          /\ r.contacts[1].id \in DOMAIN contacts
          /\ \A f \in InputFields :
               contacts[r.contacts[1].id][f] = created[f]
          /\ IF embeddingsEnabled
             THEN /\ "settled" \in DOMAIN loc[p]
                  /\ DOMAIN loc[p].settled = {1}
                  /\ \A e \in EmbeddingsOf(r.contacts[1].id) :
                       e.content = createContactEmbeddingText(r.contacts[1])
                  /\ Cardinality(EmbeddingsOf(r.contacts[1].id))
                       = IF loc[p].settled[1] = "vector" THEN 1 ELSE 0
             ELSE /\ "settled" \notin DOMAIN loc[p]
                  /\ EmbeddingsOf(r.contacts[1].id) = {}

\* caller p takes this step from a position at which it awaits neither the
\* provider nor the insert of a row made from the provider's answer
WriteStep(p) ==
  /\ pc[p] \in {"idle", "bulkUpdateNext"}
  /\ pc'[p] # pc[p] \/ (pc[p] = "bulkUpdateNext" /\ loc'[p].i # loc[p].i)

\* C28: the provider is called for a contact only in a step that has
\* inserted or updated that contact's row (a create or update that is
\* rejected or matches no row ends without a provider call and leaves the
\* embedding table as it is), and an embedding row is written for a contact
\* only by a caller whose provider call for that contact was made; rows go
\* only through an update's own delete or the deletion of their contact.
C28_EmbeddingOnlyAfterContactWrite ==
  [][ /\ \A p \in Procs :
           /\ (WriteStep(p) /\ op'[p] = "createContact")
              => IF pc'[p] = "createEmbedding"
                 THEN /\ InputValid(arg'[p])
                      /\ loc'[p].contact.id \notin DOMAIN contacts
                      /\ loc'[p].contact.id \in DOMAIN contacts'
                      /\ contacts'[loc'[p].contact.id] = loc'[p].contact
                      /\ embeddings' = embeddings
                 ELSE /\ pc'[p] = "done" /\ embeddings' = embeddings
                      /\ ret'[p].kind = "throw" => contacts' = contacts
           /\ (WriteStep(p)
                 /\ op'[p] \in {"updateContact", "bulkUpdateContacts"})
              => IF pc'[p] = "updateEmbedding"
                 THEN /\ loc'[p].contact.id \in DOMAIN contacts
                      /\ contacts'[loc'[p].contact.id] = loc'[p].contact
                      /\ embeddings' = embeddings
                 ELSE /\ pc'[p] \notin ProviderCalled
                      /\ embeddings' = embeddings
           /\ (WriteStep(p) /\ op'[p] = "bulkInsertContacts"
                 /\ pc'[p] = "bulkEmbeddings")
              => /\ embeddings' = embeddings
                 /\ \A i \in 1..Len(loc'[p].result.contacts) :
                      LET c == loc'[p].result.contacts[i]
                      IN c.id \in DOMAIN contacts' /\ contacts'[c.id] = c
      /\ \A e \in embeddings' \ embeddings :
           \E p \in Procs :
             \/ /\ pc[p] \in {"createEmbedding", "updateInsert"}
                /\ loc[p].contact.id = e.contactId
             \/ /\ pc[p] = "bulkEmbeddings"
                /\ \E i \in 1..Len(loc[p].result.contacts) :
                     loc[p].result.contacts[i].id = e.contactId
      /\ \A e \in embeddings \ embeddings' :
           \/ e.contactId \notin DOMAIN contacts'
           \/ \E p \in Procs :
                pc[p] = "updateEmbedding" /\ loc[p].contact.id = e.contactId
    ]_vars

\* with embeddings enabled and rows in the embedding table, an update named
\* a contact that does not exist and ended with null
C28_Witness ==
  \E p \in Procs :
    /\ Completed(p, "updateContact") /\ embeddingsEnabled
    /\ ret[p].kind = "null"
    /\ embeddings # {}

\* C29: with embeddings enabled and no operation under way, the content of
\* every embedding row is the text synthesized from the fields its contact
\* has now, whatever the provider did in the creates and updates before.
C29_EmbeddingContentCurrent ==
  (embeddingsEnabled /\ \A p \in Procs : pc[p] \in {"idle", "done"})
  => \A e \in embeddings :
       /\ e.contactId \in DOMAIN contacts
       /\ e.content = createContactEmbeddingText(contacts[e.contactId])

\* C30: bulkUpdateContacts and bulkDeleteContacts account for every position
\* of their input once, also when it holds an empty-string id or an id
\* twice: processedCount + errors.length is the number of inputs, the
\* errors carry distinct indices of the input, and the produced contacts /
\* deletedIds are, in order, the inputs at the other positions.  (Stated
\* for arrays of updates and of id strings, without null entries.)
C30_EveryPositionAccountedOnce ==
  \A p \in Procs :
    (/\ pc[p] = "done"
     /\ \/ op[p] = "bulkDeleteContacts"
        \/ /\ op[p] = "bulkUpdateContacts"
           /\ \A i \in 1..Len(arg[p]) : arg[p][i] # NullEntry)
    => LET n == Len(arg[p])
           r == ret[p].value
           produced == IF op[p] = "bulkDeleteContacts"
                       THEN r.deletedIds
                       ELSE [m \in 1..Len(r.contacts) |-> r.contacts[m].id]
           failed == {r.errors[i].index + 1 : i \in 1..Len(r.errors)}
           passed == (1..n) \ failed
           nth(m) == CHOOSE k \in passed :
                       Cardinality({j \in passed : j <= k}) = m
       IN /\ r.processedCount + Len(r.errors) = n
          /\ Len(produced) = r.processedCount
          /\ failed \subseteq 1..n
          /\ Cardinality(failed) = Len(r.errors)
          /\ Cardinality(passed) = Len(produced)
          /\ \A m \in 1..Len(produced) :
               produced[m] = IF op[p] = "bulkDeleteContacts"
                             THEN arg[p][nth(m)]
                             ELSE arg[p][nth(m)].id

====
